---- MODULE Spec2Model ----
(***************************************************************************)
(* The indexer (indexer.ts) and searcher (searcher.ts) of the reminders    *)
(* tool as a state machine: the external Reminders stores, the three      *)
(* persisted index files (index.db, fuzzy.json, stats.json), the handles   *)
(* the long-lived MCP server caches, and one operation at a time running   *)
(* step by step, with the external writer and process death interleaved.   *)
(*                                                                         *)
(* Time is a logical clock.  It advances when the external writer touches  *)
(* a source file and when a run saves the Stats Record; every other write  *)
(* is stamped with the current value, so `mtime[f] > db.mtime` holds       *)
(* exactly when file f was modified after index.db was last written.       *)
(***************************************************************************)
EXTENDS Integers, Sequences, FiniteSets, TLC

\* ------------------------------------------------------------------ bounds
\* Rows a source file may hold (Z_PK runs 1..MaxRows).
MaxRows == 2
\* Ticks of the logical clock.
MaxClock == 4


\* Records per insertBatch transaction.  indexer.ts sets BATCH_SIZE = 1000;
\* the model scales it down so that a run over a handful of records still
\* commits several batches.
BATCH_SIZE == 2

\* ------------------------------------------------------- program constants
APPLE_EPOCH_OFFSET == 978307200

\* The source directory holds at most these Data-*.sqlite files, in
\* readdirSync order.
Files == {1, 2}

\* ------------------------------------------------------------ source rows
\* Text is a sequence of characters.
WorkList == <<"W", "o", "r", "k">>
DefaultList == <<"R", "e", "m", "i", "n", "d", "e", "r", "s">>

\* A NULL date column.
NoDate == 0

\* A row of ZREMCDREMINDER joined with its list (the SELECT of the indexer),
\* without its Z_PK, which is the row's position in the file.  An empty
\* title is a NULL title, an empty listName with listId 0 a row without
\* list.  Dates are whole seconds of the Apple epoch.
ItemA == [title |-> <<"a">>, listName |-> WorkList, listId |-> 1,
          creationDate |-> 1, completed |-> 0, flagged |-> 0,
          dueDate |-> NoDate, completionDate |-> NoDate,
          markedForDeletion |-> 0]
ItemB == [title |-> <<"b">>, listName |-> <<>>, listId |-> 0,
          creationDate |-> 2, completed |-> 1, flagged |-> 1,
          dueDate |-> 5, completionDate |-> 6, markedForDeletion |-> 0]
ItemN == [title |-> <<>>, listName |-> WorkList, listId |-> 1,
          creationDate |-> 3, completed |-> 0, flagged |-> 0,
          dueDate |-> NoDate, completionDate |-> NoDate,
          markedForDeletion |-> 0]
Items == {ItemA, ItemB, ItemN}
\* A row whose ZCREATIONDATE is NULL.
ItemU == [title |-> <<"u">>, listName |-> WorkList, listId |-> 1,
          creationDate |-> NoDate, completed |-> 0, flagged |-> 0,
          dueDate |-> NoDate, completionDate |-> NoDate,
          markedForDeletion |-> 0]

VARIABLES
    \* the external stores
    srcDir,         \* SOURCE_DIR exists
    srcFiles,       \* the Data-*.sqlite files present in SOURCE_DIR
    broken,         \* those of them that cannot be stat'ed, copied or opened
    src,            \* src[f]: the rows of file f, src[f][k] has Z_PK = k
    mtime,          \* mtime[f]: modification time of file f
    clock,
    \* the persisted index
    db,             \* index.db
    fuzzy,          \* fuzzy.json
    stats,          \* stats.json
    \* the MCP server process (searcher.ts module state)
    cachedDb,
    cachedMiniSearch,
    \* the operation in progress
    pc,             \* where the running operation stands; "idle" when none
    op,             \* the command or tool call that is running
    result,         \* what ensureIndex returned to the running read operation
    dbs,            \* the files the copy loop `for (const dbPath of dbs)` has left
    reminders,      \* allReminders / newReminders
    indexed,        \* indexedReminders
    batchQ,         \* records not yet handed to insertBatch
    miniSearch,     \* the run's in-memory MiniSearch documents
    existingStats,  \* updateIndex's existingStats
    \* a call of search()
    call,           \* its SearchOptions
    answer,         \* the strategy it took and the SearchResult[] it returned
    \* history, read only by the properties
    hist

vars == <<srcDir, srcFiles, broken, src, mtime, clock, db, fuzzy, stats,
          cachedDb, cachedMiniSearch, pc, op, result, dbs, reminders, indexed,
          batchQ, miniSearch, existingStats, call, answer, hist>>

srcVars == <<srcDir, srcFiles, broken, src, mtime>>
idxVars == <<db, fuzzy, stats>>
cacheVars == <<cachedDb, cachedMiniSearch>>
runVars == <<dbs, reminders, indexed, batchQ, miniSearch, existingStats>>
searchVars == <<call, answer>>

\* ---------------------------------------------------------------- helpers
Max(S) == CHOOSE x \in S : \A y \in S : y <= x
Min(S) == CHOOSE x \in S : \A y \in S : x <= y
Range(s) == {s[k] : k \in 1..Len(s)}
IdsOf(S) == {r.id : r \in S}

NoDb == [exists |-> FALSE, tables |-> FALSE, rows |-> {}, mtime |-> 0]
NoFuzzy == [state |-> "missing", docs |-> {}]
CorruptFuzzy == [state |-> "corrupt", docs |-> {}]
NoStats == [exists |-> FALSE, totalReminders |-> 0, totalLists |-> 0,
            completedReminders |-> 0, pendingReminders |-> 0, indexedAt |-> 0,
            oldestReminder |-> 0, newestReminder |-> 0, lastIndexedRowid |-> 0]
\* A handle on index.db: whether its file holds the tables, and whether a
\* run has completed since it was opened.
NoHandle == [open |-> FALSE, tables |-> FALSE, beforeRun |-> FALSE]
NoMini == [loaded |-> FALSE, docs |-> {}]
\* An optional string of SearchOptions: undefined, or the text given.
Unset == [set |-> FALSE, text |-> <<>>]
Given(t) == [set |-> TRUE, text |-> t]
NoCall == [query |-> Unset, list |-> Unset, completed |-> "unset",
           flagged |-> "unset", limit |-> 0]
NoAnswer == [done |-> FALSE, strategy |-> "none", rows |-> <<>>]

\* ------------------------------------------------- indexer.ts: staleness
findRemindersDatabases == IF srcDir THEN srcFiles ELSE {}

\* A faulty test that takes every listed file as readable.
ReadableAll(f) == f \in findRemindersDatabases

\* copyFileSync, new Database and statSync succeed on file f.
Readable(f) == f \in findRemindersDatabases /\ f \notin broken

\* The files statSync fails on are skipped.
getSourceModTime ==
    LET times == {mtime[f] : f \in {g \in findRemindersDatabases : Readable(g)}}
    IN IF times = {} THEN 0 ELSE Max(times)

indexExists == db.exists /\ fuzzy.state # "missing"

\* A faulty check that asks for a rebuild when there is no source database.
indexNeedsRebuildNoSource ==
    IF ~indexExists THEN TRUE
    ELSE IF findRemindersDatabases = {} THEN TRUE
    ELSE getSourceModTime > db.mtime

indexNeedsRebuild ==
    IF ~indexExists THEN TRUE
    ELSE IF findRemindersDatabases = {} THEN FALSE
    ELSE getSourceModTime > db.mtime

\* A faulty test that takes any Stats Record, with a mark or without.
HasRowidAny(st) == st.exists

\* stats?.lastIndexedRowid: a Stats Record with a non-zero high-water-mark.
HasRowid(st) == st.exists /\ st.lastIndexedRowid # 0

\* ------------------------------------------------- indexer.ts: ingestion
appleToUnix(appleDate) == appleDate + APPLE_EPOCH_OFFSET

\* The SELECT of both readers on a copy of file f: rows not marked for
\* deletion with Z_PK > minPk (0 for the full query), id = Z_PK.
SelectRows(f, minPk) ==
    {[id |-> k, title |-> src[f][k].title, listName |-> src[f][k].listName,
      listId |-> src[f][k].listId, creationDate |-> src[f][k].creationDate,
      completed |-> src[f][k].completed, flagged |-> src[f][k].flagged,
      dueDate |-> src[f][k].dueDate,
      completionDate |-> src[f][k].completionDate] :
        k \in {j \in 1..Len(src[f]) :
                 src[f][j].markedForDeletion = 0 /\ j > minPk}}

\* ORDER BY r.ZCREATIONDATE ASC; rows with equal creation date in Z_PK order.
RECURSIVE OrderByCreation(_)
OrderByCreation(S) ==
    IF S = {} THEN <<>>
    ELSE LET first == CHOOSE r \in S : \A q \in S :
                          \/ r.creationDate < q.creationDate
                          \/ r.creationDate = q.creationDate /\ r.id <= q.id
         IN <<first>> \o OrderByCreation(S \ {first})

\* `${r.title}|${r.listName}|${r.creationDate}`
DedupKey(r) == <<r.title, r.listName, r.creationDate>>

\* A faulty loop that pushes every row, seen or not.
RECURSIVE DedupeKeepAll(_, _)
DedupeKeepAll(rows, acc) ==
    IF rows = <<>> THEN acc
    ELSE DedupeKeepAll(Tail(rows),
                       Append(acc, [Head(rows) EXCEPT !.id = Len(acc) + 1]))

\* The dedupe loop of queryAllDatabases over one file's rows.  seenTitles
\* holds the keys of the records pushed so far and globalIdCounter is one
\* more than their number, so both are read off allReminders (acc).
RECURSIVE Dedupe(_, _)
Dedupe(rows, acc) ==
    IF rows = <<>> THEN acc
    ELSE LET r == Head(rows)
             seenTitles == {DedupKey(x) : x \in Range(acc)}
             globalIdCounter == Len(acc) + 1
         IN IF DedupKey(r) \in seenTitles
            THEN Dedupe(Tail(rows), acc)
            ELSE Dedupe(Tail(rows),
                        Append(acc, [r EXCEPT !.id = globalIdCounter]))

\* The paths one turn of either copy loop touches.  dbPath is an entry of
\* SOURCE_DIR and tempPath a fresh name under REMINDERS_DIR/temp.
dbPath(f) == <<"Stores", f>>

\* A faulty loop that takes the source path as its working path.
tempPathInPlace(f) == dbPath(f)

tempPath(f) == <<"temp", f>>

copyFileSync(paths, from, to) == IF from \in paths THEN paths \cup {to} ELSE paths
unlinkSync(paths, path) == paths \ {path}

\* The entries of SOURCE_DIR after one turn on file f: copyFileSync(dbPath,
\* tempPath) when the file can be copied, a read-only connection on
\* tempPath, and unlinkSync(tempPath) in the finally block.
CopyTurn(fs, f, ok) ==
    LET before == {dbPath(g) : g \in fs}
        copied == IF ok THEN copyFileSync(before, dbPath(f), tempPath(f))
                  ELSE before
        after == unlinkSync(copied, tempPath(f))
    IN {g \in Files : dbPath(g) \in after}

\* One turn of the copy loop of queryAllDatabases on file f, and the whole
\* loop over the files fs when nothing else runs in between.
QueryFile(f, acc) == Dedupe(OrderByCreation(SelectRows(f, 0)), acc)

RECURSIVE queryAllDatabases(_, _)
queryAllDatabases(fs, acc) ==
    IF fs = {} THEN acc
    ELSE LET f == Min(fs) IN queryAllDatabases(fs \ {f}, QueryFile(f, acc))

\* A faulty record that keeps the empty list name of a row without list.
ToIndexedNoDefault(r, now) ==
    [id |-> r.id, title |-> r.title, listName |-> r.listName,
     listId |-> r.listId, completed |-> (r.completed = 1),
     flagged |-> (r.flagged = 1),
     dueDate |-> IF r.dueDate = NoDate THEN NoDate
                 ELSE appleToUnix(r.dueDate),
     completionDate |-> IF r.completionDate = NoDate THEN NoDate
                        ELSE appleToUnix(r.completionDate),
     creationDate |-> IF r.creationDate = NoDate THEN appleToUnix(now)
                      ELSE appleToUnix(r.creationDate)]

\* The record both index loops build from a joined row; a row without
\* creation date gets the time of the loop, now, in its place.
ToIndexed(r, now) ==
    [id |-> r.id, title |-> r.title,
     listName |-> IF r.listName = <<>> THEN DefaultList ELSE r.listName,
     listId |-> r.listId, completed |-> (r.completed = 1),
     flagged |-> (r.flagged = 1),
     dueDate |-> IF r.dueDate = NoDate THEN NoDate
                 ELSE appleToUnix(r.dueDate),
     completionDate |-> IF r.completionDate = NoDate THEN NoDate
                        ELSE appleToUnix(r.completionDate),
     creationDate |-> IF r.creationDate = NoDate THEN appleToUnix(now)
                      ELSE appleToUnix(r.creationDate)]

\* A faulty loop that indexes the rows without title too.
RECURSIVE IndexLoopKeepUntitled(_, _)
IndexLoopKeepUntitled(rs, now) ==
    IF rs = <<>> THEN <<>>
    ELSE <<ToIndexed(Head(rs), now)>> \o IndexLoopKeepUntitled(Tail(rs), now)

\* The loop `for (const r of reminders)`: rows without title are skipped.
RECURSIVE IndexLoop(_, _)
IndexLoop(rs, now) ==
    IF rs = <<>> THEN <<>>
    ELSE IF Head(rs).title = <<>> THEN IndexLoop(Tail(rs), now)
    ELSE <<ToIndexed(Head(rs), now)>> \o IndexLoop(Tail(rs), now)

\* The next batch handed to insertBatch, and what is left after it.
NextBatch(q) == SubSeq(q, 1, IF Len(q) < BATCH_SIZE THEN Len(q) ELSE BATCH_SIZE)
AfterBatch(q) == SubSeq(q, Len(NextBatch(q)) + 1, Len(q))

\* The Stats Record buildIndex saves.
BuildStats(ix, now) ==
    LET S == Range(ix) IN
    [exists |-> TRUE,
     totalReminders |-> Len(ix),
     totalLists |-> Cardinality({r.listId : r \in S}),
     completedReminders |-> Cardinality({k \in 1..Len(ix) : ix[k].completed}),
     pendingReminders |-> Cardinality({k \in 1..Len(ix) : ~ix[k].completed}),
     indexedAt |-> now,
     oldestReminder |-> IF S = {} THEN 0 ELSE Min({r.creationDate : r \in S}),
     newestReminder |-> IF S = {} THEN 0 ELSE Max({r.creationDate : r \in S}),
     lastIndexedRowid |-> IF S = {} THEN 0 ELSE Max(IdsOf(S))]

\* ------------------------------------------------------------------ Init
\* The tool is installed beside empty Reminders stores; no index has been
\* built and the MCP server holds no handle.

\* clean: every run since the last completed buildIndex completed (or none
\*        ever started); lastRun: the last run that completed;
\* grown: the last run that completed was a buildIndex, no source file was
\*        removed while it ran, and the sources have only gained rows since;
\* same:  the last run that completed was a buildIndex that read every
\*        source file as it still is: nothing has touched the sources
\*        since it began to copy them;
\* notFound: the last run ended with the error `Reminders databases not
\*        found at ${SOURCE_DIR}`;
\* wrote, lost, late: of the run in progress -- it has written an index
\*        file, a source file was removed or broke while it ran, the files
\*        modified after it copied them;
\* progress: the notifications the onProgress callback has received from
\*        the last run that began.
NoHist == [clean |-> TRUE, lastRun |-> "none", grown |-> FALSE,
           same |-> FALSE, notFound |-> FALSE,
           wrote |-> FALSE, lost |-> FALSE, late |-> {}, progress |-> <<>>]

Init ==
    /\ srcDir = TRUE /\ broken = {}
    /\ srcFiles = Files
    /\ src = [f \in Files |-> <<>>]
    /\ mtime = [f \in Files |-> 0]
    /\ clock = 0
    /\ db = NoDb /\ fuzzy = NoFuzzy /\ stats = NoStats
    /\ cachedDb = NoHandle /\ cachedMiniSearch = NoMini
    /\ pc = "idle" /\ op = "none" /\ result = "none"
    /\ dbs = {} /\ reminders = <<>> /\ indexed = <<>> /\ batchQ = <<>>
    /\ miniSearch = {} /\ existingStats = NoStats
    /\ call = NoCall /\ answer = NoAnswer
    /\ hist = NoHist

\* ------------------------------------------------- the external writer
\* A run in progress saves the Stats Record once more, so the writer leaves
\* it one tick of the clock.
CanTick == clock + (IF pc = "idle" THEN 0 ELSE 1) < MaxClock

InRun == pc \in {"b_read", "b_create", "b_batch", "b_fuzzy", "b_stats",
                  "u_read", "u_batch", "u_fuzzy", "u_stats"}

Modified(f) ==
    IF InRun THEN [hist EXCEPT !.late = @ \cup {f}, !.same = FALSE]
    ELSE [hist EXCEPT !.same = FALSE]

ExtRemoveFile(f) ==
    /\ UNCHANGED searchVars
    /\ CanTick /\ f \in srcFiles
    /\ srcFiles' = srcFiles \ {f}
    /\ broken' = broken \ {f}
    /\ src' = [src EXCEPT ![f] = <<>>]
    /\ clock' = clock + 1
    /\ mtime' = [mtime EXCEPT ![f] = 0]
    /\ hist' = [hist EXCEPT !.late = @ \ {f}, !.grown = FALSE,
                             !.same = FALSE,
                             !.lost = @ \/ InRun]
    /\ UNCHANGED <<srcDir, idxVars, cacheVars, pc, op, result, runVars>>

ExtAdd(f, it) ==
    /\ UNCHANGED searchVars
    /\ CanTick /\ f \in srcFiles /\ Len(src[f]) < MaxRows
    /\ src' = [src EXCEPT ![f] = Append(@, it)]
    /\ clock' = clock + 1
    /\ mtime' = [mtime EXCEPT ![f] = clock']
    /\ hist' = Modified(f)
    /\ UNCHANGED <<srcDir, srcFiles, broken, idxVars, cacheVars, pc, op,
                   result, runVars>>

External ==
    \/ \E f \in Files : ExtRemoveFile(f)
    \/ \E f \in Files, it \in Items : ExtAdd(f, it)

\* Faults of the file system under SOURCE_DIR.  An entry of the directory
\* breaks: it is listed still, but statSync, copyFileSync and new Database
\* fail on it (a link whose target has gone, a file on a lost volume).
ExtBreak(f) ==
    /\ UNCHANGED searchVars
    /\ CanTick /\ f \in srcFiles \ broken
    /\ broken' = broken \cup {f}
    /\ clock' = clock + 1
    /\ hist' = [hist EXCEPT !.late = @ \ {f}, !.grown = FALSE,
                             !.same = FALSE,
                             !.lost = @ \/ InRun]
    /\ UNCHANGED <<srcDir, srcFiles, src, mtime, idxVars, cacheVars, pc, op,
                   result, runVars>>

\* SOURCE_DIR goes, with all it holds.
ExtRemoveDir ==
    /\ UNCHANGED searchVars
    /\ CanTick /\ srcDir
    /\ srcDir' = FALSE /\ srcFiles' = {} /\ broken' = {}
    /\ src' = [f \in Files |-> <<>>]
    /\ mtime' = [f \in Files |-> 0]
    /\ clock' = clock + 1
    /\ hist' = [hist EXCEPT !.late = {}, !.grown = FALSE, !.same = FALSE,
                             !.lost = @ \/ InRun]
    /\ UNCHANGED <<idxVars, cacheVars, pc, op, result, runVars>>

Faults ==
    \/ \E f \in Files : ExtBreak(f)
    \/ ExtRemoveDir

\* ------------------------------------------------ how an operation ends
ResetRun ==
    /\ dbs' = {} /\ reminders' = <<>> /\ indexed' = <<>> /\ batchQ' = <<>>
    /\ miniSearch' = {} /\ existingStats' = NoStats

IsCli == op \in {"cli", "cliUpdate"}

\* A faulty caller that catches the exception and goes on to buildIndex.
ThrowThenRebuild ==
    /\ pc' = "b_start" /\ op' = op /\ result' = result /\ ResetRun
    /\ UNCHANGED cacheVars

\* An exception leaves the operation: the CLI prints it and exits, the MCP
\* handler catches it and answers with an error; the server's cached
\* handles stay as they are.
Throw ==
    /\ pc' = "idle" /\ op' = "none" /\ result' = "none" /\ ResetRun
    /\ UNCHANGED cacheVars

Failed(h) == [h EXCEPT !.clean = FALSE, !.grown = FALSE, !.same = FALSE,
                       !.notFound = FALSE, !.wrote = FALSE,
                       !.lost = FALSE, !.late = {}]

\* ensureIndex returns r to the read operation that called it; a CLI index
\* command prints the stats and exits.
Return(r) ==
    /\ ResetRun
    /\ cachedDb' = [cachedDb EXCEPT !.beforeRun = cachedDb.open]
    /\ UNCHANGED cachedMiniSearch
    /\ IF IsCli THEN pc' = "idle" /\ op' = "none" /\ result' = "none"
       ELSE pc' = "m_open" /\ op' = op /\ result' = r

Started(h) == [h EXCEPT !.notFound = FALSE, !.wrote = FALSE,
                        !.lost = FALSE, !.late = {}, !.progress = <<>>]
\* throw new Error(`Reminders databases not found at ${SOURCE_DIR}. ...`)
NotFound(h) == [h EXCEPT !.notFound = TRUE]
Wrote(h) == [h EXCEPT !.wrote = TRUE]
Copied(h, f, ok) == IF ok THEN [h EXCEPT !.late = @ \ {f}] ELSE h
Finished(h, run) ==
    [h EXCEPT !.wrote = FALSE, !.lost = FALSE, !.late = {},
              !.lastRun = run,
              !.clean = IF run = "build" THEN TRUE ELSE @,
              !.grown = run = "build" /\ ~h.lost,
              !.same = run = "build" /\ ~h.lost /\ h.late = {}]

\* --------------------------------------------- indexer.ts: IndexProgress
\* for (let i = 0; i < indexedReminders.length; i += MINI_BATCH)
MINI_BATCH == 2

Notification(phase, current, total) ==
    [phase |-> phase, current |-> current, total |-> total]

\* onProgress?.(...): the index commands of the CLI pass a callback, the
\* ensureIndex() of the searcher and of the MCP handler passes none.
onProgress(h, ns) == IF IsCli THEN [h EXCEPT !.progress = @ \o ns] ELSE h

\* A faulty count that adds BATCH_SIZE for the last, shorter batch too.
ProcessedBySize(ix, q) == Len(ix) - Len(q) + BATCH_SIZE

\* `processed` after insertBatch on the head of q, the records of ix not
\* yet inserted: += BATCH_SIZE for a full batch, += batch.length for the
\* remainder.
Processed(ix, q) ==
    LET before == Len(ix) - Len(q) IN
    IF Len(NextBatch(q)) >= BATCH_SIZE THEN before + BATCH_SIZE
    ELSE before + Len(NextBatch(q))

\* The notifications of buildIndex's fuzzy phase over n records.
FuzzyProgress(n) ==
    <<Notification("indexing-fuzzy", 0, n)>> \o
    [k \in 1..((n + MINI_BATCH - 1) \div MINI_BATCH) |->
        Notification("indexing-fuzzy", Min({k * MINI_BATCH, n}), n)]

\* ------------------------------------------------ indexer.ts: buildIndex
\* The steps that follow the last insertBatch, in program order.
BuildTail == <<"b_fuzzy", "b_stats">>

StepAfter(tail, p) ==
    IF \E k \in 1..Len(tail) - 1 : tail[k] = p
    THEN tail[(CHOOSE k \in 1..Len(tail) - 1 : tail[k] = p) + 1]
    ELSE "return"

\* ensureIndexDir, then the head of queryAllDatabases.
BuildStart ==
    /\ UNCHANGED searchVars
    /\ pc = "b_start"
    /\ \/ /\ findRemindersDatabases = {}
          /\ Throw
          /\ hist' = NotFound(Failed(Started(hist)))
       \/ /\ findRemindersDatabases # {}
          /\ dbs' = findRemindersDatabases
          /\ pc' = "b_read"
          /\ hist' = Started(hist)
          /\ UNCHANGED <<op, result, reminders, indexed, batchQ, miniSearch,
                         existingStats, cacheVars>>
    /\ UNCHANGED <<srcVars, clock, idxVars>>

\* One turn of `for (const dbPath of dbs)`: copy, query, dedupe.  A file
\* that cannot be copied or opened, or has gone since the listing, is
\* skipped.
BuildRead ==
    /\ UNCHANGED searchVars
    /\ pc = "b_read" /\ dbs # {}
    /\ LET f == Min(dbs) IN
         /\ dbs' = dbs \ {f}
         /\ reminders' = IF Readable(f)
                         THEN QueryFile(f, reminders)
                         ELSE reminders
         /\ hist' = Copied(hist, f, Readable(f))
         /\ srcFiles' = CopyTurn(srcFiles, f, Readable(f))
    /\ UNCHANGED <<srcDir, broken, src, mtime, clock, idxVars, cacheVars, pc,
                   op, result, indexed, batchQ, miniSearch, existingStats>>

\* onProgress 'reading'; if (existsSync(INDEX_DB_PATH))
\* unlinkSync(INDEX_DB_PATH)
BuildUnlink ==
    /\ UNCHANGED searchVars
    /\ pc = "b_read" /\ dbs = {}
    /\ db' = NoDb
    /\ pc' = "b_create"
    /\ hist' = LET h == onProgress(hist, <<Notification("reading", 0,
                                                         Len(reminders))>>)
               IN IF db.exists THEN Wrote(h) ELSE h
    /\ UNCHANGED <<srcVars, clock, fuzzy, stats, cacheVars, op, result,
                   runVars>>

\* new Database(INDEX_DB_PATH) and the CREATE statements; the index loop
\* turns the rows into indexedReminders.
BuildCreate ==
    /\ UNCHANGED searchVars
    /\ pc = "b_create"
    /\ db' = [exists |-> TRUE, tables |-> TRUE, rows |-> {}, mtime |-> clock]
    /\ indexed' = IndexLoop(reminders, clock)
    /\ batchQ' = indexed'
    /\ pc' = IF batchQ' = <<>> THEN BuildTail[1] ELSE "b_batch"
    /\ hist' = onProgress(Wrote(hist), <<Notification("indexing-fts", 0,
                                                       Len(reminders))>>)
    /\ UNCHANGED <<srcVars, clock, fuzzy, stats, cacheVars, op, result,
                   dbs, reminders, miniSearch, existingStats>>

\* insertBatch(batch): one transaction.  The ids of a full build are
\* 1, 2, 3, ... so no insert can hit the primary key.
BuildBatch ==
    /\ UNCHANGED searchVars
    /\ pc = "b_batch"
    /\ db' = [db EXCEPT !.rows = @ \cup Range(NextBatch(batchQ)),
                        !.mtime = clock]
    /\ batchQ' = AfterBatch(batchQ)
    /\ pc' = IF batchQ' = <<>> THEN BuildTail[1] ELSE "b_batch"
    /\ hist' = onProgress(Wrote(hist),
                          <<Notification("indexing-fts",
                                         Processed(indexed, batchQ),
                                         Len(reminders))>>)
    /\ UNCHANGED <<srcVars, clock, fuzzy, stats, cacheVars, op, result,
                   dbs, reminders, indexed, miniSearch, existingStats>>

\* miniSearch.addAll in slices, then writeFileSync(FUZZY_INDEX_PATH, ...)
BuildFuzzy ==
    /\ UNCHANGED searchVars
    /\ pc = "b_fuzzy"
    /\ fuzzy' = [state |-> "ok", docs |-> Range(indexed)]
    /\ hist' = onProgress(Wrote(hist), FuzzyProgress(Len(indexed)))
    /\ IF StepAfter(BuildTail, "b_fuzzy") = "return"
       THEN Return("full")
       ELSE /\ pc' = StepAfter(BuildTail, "b_fuzzy")
            /\ UNCHANGED <<cacheVars, op, result, runVars>>
    /\ UNCHANGED <<srcVars, clock, db, stats>>

\* saveStats(stats), then onProgress 'done'
BuildSaveStats ==
    /\ UNCHANGED searchVars
    /\ pc = "b_stats"
    /\ clock' = clock + 1
    /\ stats' = BuildStats(indexed, clock')
    /\ hist' = onProgress(Finished(hist, "build"),
                          <<Notification("done", Len(reminders),
                                         Len(reminders))>>)
    /\ IF StepAfter(BuildTail, "b_stats") = "return"
       THEN Return("full")
       ELSE /\ pc' = StepAfter(BuildTail, "b_stats")
            /\ UNCHANGED <<cacheVars, op, result, runVars>>
    /\ UNCHANGED <<srcVars, db, fuzzy>>

buildIndex ==
    \/ BuildStart \/ BuildRead \/ BuildUnlink \/ BuildCreate \/ BuildBatch
    \/ BuildFuzzy \/ BuildSaveStats

\* ----------------------------------------------- indexer.ts: updateIndex
\* A transaction of insertBatch fails on the primary key of table reminders
\* when an id of the batch is already in the table or occurs twice in it.
PkConflict(rows, batch) ==
    \/ IdsOf(rows) \cap IdsOf(Range(batch)) # {}
    \/ \E j, k \in 1..Len(batch) : j # k /\ batch[j].id = batch[k].id

\* miniSearch.addAll throws on a document id the index already holds.
DuplicateId(docs, ix) ==
    \/ IdsOf(docs) \cap IdsOf(Range(ix)) # {}
    \/ \E j, k \in 1..Len(ix) : j # k /\ ix[j].id = ix[k].id

\* A faulty addAll that drops the documents it is given.
AddAllDropped(docs, ix) == docs

\* A faulty addAll that keeps the new documents only.
AddAllReplaced(docs, ix) == Range(ix)

\* The documents of the MiniSearch index after addAll(indexedReminders).
AddAll(docs, ix) == docs \cup Range(ix)

\* A faulty lastRowid that starts from 0 instead of the stored mark.
UpdateRowidFromZero(existing, ix) == Max({0} \cup IdsOf(Range(ix)))

\* lastRowid after the index loop of updateIndex.
UpdateRowid(existing, ix) ==
    Max({existing.lastIndexedRowid} \cup IdsOf(Range(ix)))

\* A faulty record that leaves the delta out of the counts.
UpdateStatsNoCount(existing, ix, now) ==
    [existing EXCEPT !.indexedAt = now,
                     !.lastIndexedRowid = UpdateRowid(existing, ix)]

\* The Stats Record updateIndex saves after indexing a delta.
UpdateStats(existing, ix, now) ==
    [exists |-> TRUE,
     totalReminders |-> existing.totalReminders + Len(ix),
     totalLists |-> existing.totalLists,
     completedReminders |-> existing.completedReminders
         + Cardinality({k \in 1..Len(ix) : ix[k].completed}),
     pendingReminders |-> existing.pendingReminders
         + Cardinality({k \in 1..Len(ix) : ~ix[k].completed}),
     indexedAt |-> now,
     oldestReminder |-> existing.oldestReminder,
     newestReminder |-> Max({existing.newestReminder}
                            \cup {r.creationDate : r \in Range(ix)}),
     lastIndexedRowid |-> UpdateRowid(existing, ix)]

\* The steps that follow the last insertBatch, in program order.
UpdateTail == <<"u_fuzzy", "u_stats">>

\* getStats; without a high-water-mark updateIndex returns null, and both
\* callers (ensureIndex, the CLI's index --update) go on to buildIndex.
UpdateStart ==
    /\ UNCHANGED searchVars
    /\ pc = "u_start"
    /\ \/ /\ ~HasRowid(stats)
          /\ pc' = "b_start"
          /\ hist' = hist
          /\ UNCHANGED <<op, result, runVars, cacheVars>>
       \/ /\ HasRowid(stats) /\ findRemindersDatabases = {}
          /\ Throw
          /\ hist' = NotFound(Failed(Started(hist)))
       \/ /\ HasRowid(stats) /\ findRemindersDatabases # {}
          /\ existingStats' = stats
          /\ dbs' = findRemindersDatabases
          /\ pc' = "u_read"
          /\ hist' = Started(hist)
          /\ UNCHANGED <<op, result, reminders, indexed, batchQ, miniSearch,
                         cacheVars>>
    /\ UNCHANGED <<srcVars, clock, idxVars>>

\* One turn of the copy loop: the rows with Z_PK > lastIndexedRowid are
\* pushed as they are.
UpdateRead ==
    /\ UNCHANGED searchVars
    /\ pc = "u_read" /\ dbs # {}
    /\ LET f == Min(dbs) IN
         /\ dbs' = dbs \ {f}
         /\ reminders' =
              IF Readable(f)
              THEN reminders \o OrderByCreation(
                       SelectRows(f, existingStats.lastIndexedRowid))
              ELSE reminders
         /\ hist' = Copied(hist, f, Readable(f))
         /\ srcFiles' = CopyTurn(srcFiles, f, Readable(f))
    /\ UNCHANGED <<srcDir, broken, src, mtime, clock, idxVars, cacheVars, pc,
                   op, result, indexed, batchQ, miniSearch, existingStats>>

\* A faulty refresh that saves a fresh record and drops the existing fields.
RefreshedStatsOnly(existing, now) ==
    [NoStats EXCEPT !.exists = TRUE, !.indexedAt = now]

\* { ...existingStats, indexedAt: new Date() }
RefreshedStats(existing, now) == [existing EXCEPT !.indexedAt = now]

\* newReminders.length === 0: only indexedAt is refreshed.
UpdateEmpty ==
    /\ UNCHANGED searchVars
    /\ pc = "u_read" /\ dbs = {} /\ reminders = <<>>
    /\ clock' = clock + 1
    /\ stats' = RefreshedStats(existingStats, clock')
    /\ hist' = onProgress(Finished(hist, "updateNone"),
                          <<Notification("done", 0, 0)>>)
    /\ Return("incremental")
    /\ UNCHANGED <<srcVars, db, fuzzy>>

\* onProgress 'indexing-fts' with current 0 comes first.
\* new Database(INDEX_DB_PATH) creates the file when it is missing; the
\* prepared INSERTs need the tables; the fuzzy index is read and parsed.
UpdateOpen ==
    /\ UNCHANGED searchVars
    /\ pc = "u_read" /\ dbs = {} /\ reminders # <<>>
    /\ LET told == onProgress(hist, <<Notification("indexing-fts", 0,
                                                   Len(reminders))>>) IN
          \/ /\ ~db.exists
             /\ db' = [exists |-> TRUE, tables |-> FALSE, rows |-> {},
                       mtime |-> clock]
             /\ Throw
             /\ hist' = Failed(Wrote(told))
          \/ /\ db.exists /\ ~db.tables
             /\ Throw
             /\ hist' = Failed(told)
             /\ UNCHANGED db
          \/ /\ db.exists /\ db.tables /\ fuzzy.state # "ok"
             /\ Throw
             /\ hist' = Failed(told)
             /\ UNCHANGED db
          \/ /\ db.exists /\ db.tables /\ fuzzy.state = "ok"
             /\ miniSearch' = fuzzy.docs
             /\ indexed' = IndexLoop(reminders, clock)
             /\ batchQ' = indexed'
             /\ pc' = IF batchQ' = <<>> THEN UpdateTail[1] ELSE "u_batch"
             /\ hist' = told
             /\ UNCHANGED <<db, cacheVars, op, result, dbs, reminders,
                            existingStats>>
    /\ UNCHANGED <<srcVars, clock, fuzzy, stats>>

\* insertBatch(batch): commits, or rolls back and throws.
UpdateBatch ==
    /\ UNCHANGED searchVars
    /\ pc = "u_batch"
    /\ \/ /\ PkConflict(db.rows, NextBatch(batchQ))
          /\ Throw
          /\ hist' = Failed(hist)
          /\ UNCHANGED db
       \/ /\ ~PkConflict(db.rows, NextBatch(batchQ))
          /\ db' = [db EXCEPT !.rows = @ \cup Range(NextBatch(batchQ)),
                              !.mtime = clock]
          /\ batchQ' = AfterBatch(batchQ)
          /\ pc' = IF batchQ' = <<>> THEN UpdateTail[1] ELSE "u_batch"
          /\ hist' = onProgress(Wrote(hist),
                                <<Notification("indexing-fts",
                                               Processed(indexed, batchQ),
                                               Len(reminders))>>)
          /\ UNCHANGED <<cacheVars, op, result, dbs, reminders, indexed,
                         miniSearch, existingStats>>
    /\ UNCHANGED <<srcVars, clock, fuzzy, stats>>

\* miniSearch.addAll(indexedReminders), then the whole index is written.
UpdateFuzzy ==
    /\ UNCHANGED searchVars
    /\ pc = "u_fuzzy"
    /\ \/ /\ DuplicateId(miniSearch, indexed)
          /\ Throw
          /\ hist' = Failed(onProgress(hist,
                           <<Notification("indexing-fuzzy", 0,
                                          Len(indexed))>>))
          /\ UNCHANGED fuzzy
       \/ /\ ~DuplicateId(miniSearch, indexed)
          /\ fuzzy' = [state |-> "ok", docs |-> AddAll(miniSearch, indexed)]
          /\ hist' = onProgress(Wrote(hist),
                                <<Notification("indexing-fuzzy", 0,
                                               Len(indexed)),
                                  Notification("indexing-fuzzy", Len(indexed),
                                               Len(indexed))>>)
          /\ IF StepAfter(UpdateTail, "u_fuzzy") = "return"
             THEN Return("incremental")
             ELSE /\ pc' = StepAfter(UpdateTail, "u_fuzzy")
                  /\ UNCHANGED <<cacheVars, op, result, runVars>>
    /\ UNCHANGED <<srcVars, clock, db, stats>>

\* saveStats(updatedStats)
UpdateSaveStats ==
    /\ UNCHANGED searchVars
    /\ pc = "u_stats"
    /\ clock' = clock + 1
    /\ stats' = UpdateStats(existingStats, indexed, clock')
    /\ hist' = onProgress(Finished(hist, IF indexed = <<>> THEN "updateNone"
                                         ELSE "update"),
                          <<Notification("done", Len(reminders),
                                         Len(reminders))>>)
    /\ IF StepAfter(UpdateTail, "u_stats") = "return"
       THEN Return("incremental")
       ELSE /\ pc' = StepAfter(UpdateTail, "u_stats")
            /\ UNCHANGED <<cacheVars, op, result, runVars>>
    /\ UNCHANGED <<srcVars, db, fuzzy>>

updateIndex ==
    \/ UpdateStart \/ UpdateRead \/ UpdateEmpty \/ UpdateOpen \/ UpdateBatch
    \/ UpdateFuzzy \/ UpdateSaveStats

\* ----------------------------------------------- indexer.ts: ensureIndex
\* A faulty condition that looks at the Stats Record only.
TryIncrementalStatsOnly == HasRowid(stats)

\* stats?.lastIndexedRowid && indexExists()
TryIncremental == HasRowid(stats) /\ indexExists

ensureIndex ==
    /\ UNCHANGED searchVars
    /\ pc = "e_check"
    /\ \/ /\ ~indexNeedsRebuild
          /\ pc' = "m_open" /\ result' = "none"
          /\ hist' = hist
       \/ /\ indexNeedsRebuild /\ TryIncremental
          /\ pc' = "u_start" /\ result' = result
          /\ hist' = hist
       \/ /\ indexNeedsRebuild /\ ~TryIncremental
          /\ pc' = "b_start" /\ result' = result
          /\ hist' = hist
    /\ UNCHANGED <<srcVars, clock, idxVars, cacheVars, op, runVars>>

\* ------------------------------------------------------------ searcher.ts
\* search() clears the caches after a rebuild or update; the browse
\* functions call ensureIndex() and drop what it returns.
Tools == {"search", "searchText", "browse"}
ClearsCaches(o, r) == o \in {"search", "searchText"} /\ r # "none"

\* The head of a read operation after ensureIndex: clearCaches (search
\* only), then getDb, which opens index.db unless a handle is cached.
\* index.db exists here: ensureIndex found it or a run has just written it.
\* Nothing before this point reads which tool was called, so the model
\* draws it here.
ReadOpen(tool) ==
    /\ UNCHANGED searchVars
    /\ pc = "m_open"
    /\ op' = tool
    /\ LET kept == IF ClearsCaches(tool, result) THEN NoHandle ELSE cachedDb IN
         cachedDb' = IF kept.open THEN kept
                     ELSE [open |-> TRUE, tables |-> db.tables,
                           beforeRun |-> FALSE]
    /\ cachedMiniSearch' = IF ClearsCaches(tool, result) THEN NoMini
                           ELSE cachedMiniSearch
    /\ pc' = "m_read"
    /\ UNCHANGED <<srcVars, clock, idxVars, result, runVars, hist>>

\* A text search answers from the fuzzy index, which getMiniSearch loads
\* and parses; every other read prepares its SELECT on the handle.  When
\* the call returns, the MCP handler calls closeConnections; when it
\* throws, the handler answers with the error and closes nothing.
ReadQuery ==
    /\ UNCHANGED searchVars
    /\ pc = "m_read"
    /\ \/ /\ op = "searchText"
          /\ ~cachedMiniSearch.loaded /\ fuzzy.state # "ok"
          /\ UNCHANGED cacheVars
       \/ /\ op # "searchText" /\ ~cachedDb.tables
          /\ UNCHANGED cacheVars
       \/ /\ \/ op = "searchText"
                /\ (cachedMiniSearch.loaded \/ fuzzy.state = "ok")
             \/ op # "searchText" /\ cachedDb.tables
          /\ cachedDb' = NoHandle /\ cachedMiniSearch' = NoMini
    /\ pc' = "idle" /\ op' = "none" /\ result' = "none"
    /\ UNCHANGED <<srcVars, clock, idxVars, runVars, hist>>

\* ------------------------------------------------------ the entry points
\* `reminders index`, `reminders index --update`, and the MCP tools
\* search_reminders (with and without text) and the browse tools.
Invoke ==
    /\ UNCHANGED searchVars
    /\ pc = "idle" /\ clock < MaxClock
    /\ \/ op' = "cli" /\ pc' = "b_start"
       \/ op' = "cliUpdate" /\ pc' = "u_start"
       \/ op' = "read" /\ pc' = "e_check"
    /\ UNCHANGED <<srcVars, clock, idxVars, cacheVars, result, runVars, hist>>

\* The process running the operation dies.  The handles of the MCP server
\* die with it when it is the server that ran the operation.
Killed ==
    /\ pc' = "idle" /\ op' = "none" /\ result' = "none" /\ ResetRun
    /\ IF IsCli THEN UNCHANGED cacheVars
       ELSE cachedDb' = NoHandle /\ cachedMiniSearch' = NoMini

Crash ==
    /\ UNCHANGED searchVars
    /\ pc # "idle"
    /\ Killed
    /\ hist' = IF pc \in {"e_check", "m_open", "m_read"} THEN hist
               ELSE Failed(hist)
    /\ UNCHANGED <<srcVars, clock, idxVars>>

\* Death inside writeFileSync(FUZZY_INDEX_PATH, ...): the file is left
\* truncated and no longer parses.
CrashWritingFuzzy ==
    /\ UNCHANGED searchVars
    /\ pc \in {"b_fuzzy", "u_fuzzy"}
    /\ pc = "u_fuzzy" => ~DuplicateId(miniSearch, indexed)
    /\ fuzzy' = CorruptFuzzy
    /\ Killed
    /\ hist' = Failed(Wrote(hist))
    /\ UNCHANGED <<srcVars, clock, db, stats>>

Next ==
    \/ External
    \/ Invoke
    \/ ensureIndex
    \/ buildIndex
    \/ updateIndex
    \/ \E tool \in Tools : ReadOpen(tool)
    \/ ReadQuery
    \/ Crash
    \/ CrashWritingFuzzy

Spec == Init /\ [][Next]_vars

\* The state after `reminders index` has run once over two stores that
\* hold the same reminder, a or one without creation date: one record with
\* id 1, high-water-mark 1.  The index loop of that build ran at time 0 and
\* its saveStats at time 1.
InitBuilt ==
    /\ srcDir = TRUE /\ broken = {}
    /\ srcFiles = Files
    /\ \E it \in {ItemA, ItemU} : src = [f \in Files |-> <<it>>]
    /\ mtime = [f \in Files |-> 0]
    /\ clock = 1
    /\ LET built == IndexLoop(queryAllDatabases(Files, <<>>), 0) IN
         /\ db = [exists |-> TRUE, tables |-> TRUE, rows |-> Range(built),
                  mtime |-> 0]
         /\ fuzzy = [state |-> "ok", docs |-> Range(built)]
         /\ stats = BuildStats(built, 1)
    /\ cachedDb = NoHandle /\ cachedMiniSearch = NoMini
    /\ pc = "idle" /\ op = "none" /\ result = "none"
    /\ dbs = {} /\ reminders = <<>> /\ indexed = <<>> /\ batchQ = <<>>
    /\ miniSearch = {} /\ existingStats = NoStats
    /\ call = NoCall /\ answer = NoAnswer
    /\ hist = [NoHist EXCEPT !.lastRun = "build", !.grown = TRUE,
                             !.same = TRUE]

SpecBuilt == InitBuilt /\ [][Next]_vars

\* The program after a first index run, on a file system that has faults.
NextFaults == Next \/ Faults

SpecFaults == InitBuilt /\ [][NextFaults]_vars

\* --------------------------------------------------- searcher.ts: search
\* searchByText widens its cut to limit * 20 when a filter is set; the model
\* scales the factor down so that a handful of records reaches the cut.
FILTER_FACTOR == 2
\* The limits a call may ask for run from -1 to MaxLimit.
MaxLimit == 2

\* String.prototype.toLowerCase and SQLite's LOWER on the model's alphabet.
LowerOf(c) == CASE c = "W" -> "w" [] c = "R" -> "r" [] OTHER -> c
toLowerCase(t) == [k \in 1..Len(t) |-> LowerOf(t[k])]

RECURSIVE trimStart(_)
trimStart(t) ==
    IF t # <<>> /\ Head(t) = " " THEN trimStart(Tail(t)) ELSE t
RECURSIVE trimEnd(_)
trimEnd(t) ==
    IF t # <<>> /\ t[Len(t)] = " " THEN trimEnd(SubSeq(t, 1, Len(t) - 1))
    ELSE t
trim(t) == trimEnd(trimStart(t))

includes(t, sub) ==
    \E k \in 0..(Len(t) - Len(sub)) : SubSeq(t, k + 1, k + Len(sub)) = sub
startsWith(t, pre) == Len(pre) <= Len(t) /\ SubSeq(t, 1, Len(pre)) = pre

\* Array.prototype.slice(0, e) and SQL's LIMIT k (a negative k is no limit).
slice(s, e) ==
    SubSeq(s, 1, IF e < 0 THEN Max({Len(s) + e, 0}) ELSE Min({e, Len(s)}))
SqlLimit(s, k) == IF k < 0 THEN s ELSE SubSeq(s, 1, Min({k, Len(s)}))

\* SQLite's LIKE: % is any run of characters, _ any one character, letters
\* compare without case.
RECURSIVE Like(_, _)
Like(pat, t) ==
    IF pat = <<>> THEN t = <<>>
    ELSE IF Head(pat) = "%"
         THEN Like(Tail(pat), t) \/ (t # <<>> /\ Like(pat, Tail(t)))
    ELSE IF Head(pat) = "_" THEN t # <<>> /\ Like(Tail(pat), Tail(t))
    ELSE /\ t # <<>> /\ LowerOf(Head(pat)) = LowerOf(Head(t))
         /\ Like(Tail(pat), Tail(t))

\* ORDER BY due_date ASC NULLS LAST, creation_date DESC; rows equal in both
\* come in rowid order.
DueBefore(r, q) ==
    \/ r.dueDate # NoDate /\ (q.dueDate = NoDate \/ r.dueDate < q.dueDate)
    \/ /\ r.dueDate = q.dueDate
       /\ \/ r.creationDate > q.creationDate
          \/ r.creationDate = q.creationDate /\ r.id <= q.id

RECURSIVE OrderByDue(_)
OrderByDue(S) ==
    IF S = {} THEN <<>>
    ELSE LET first == CHOOSE r \in S : \A q \in S : DueBefore(r, q)
         IN <<first>> \o OrderByDue(S \ {first})

\* A string option that is set and not empty, as `if (list)` tests it.
Truthy(o) == o.set /\ o.text # <<>>

\* completed === true / completed === false / undefined
CompletedOk(r, completed) ==
    completed = "unset" \/ r.completed = (completed = "true")

\* A faulty hasTextQuery that takes a blank query for text.
hasTextQueryNoTrim(query) == Truthy(query) /\ query.text # <<"*">>

\* query && query !== '*' && query.trim() !== ''
hasTextQuery(query) ==
    Truthy(query) /\ query.text # <<"*">> /\ trim(query.text) # <<>>

searchByList(rows, list, completed, limit) ==
    SqlLimit(OrderByDue({r \in rows :
                 /\ Like(<<"%">> \o toLowerCase(list) \o <<"%">>,
                         toLowerCase(r.listName))
                 /\ CompletedOk(r, completed)}), limit)

getAllReminders(rows, completed, flagged, limit) ==
    SqlLimit(OrderByDue({r \in rows :
                 /\ CompletedOk(r, completed)
                 /\ flagged = "true" => r.flagged}), limit)

getPendingReminders(rows, limit) ==
    SqlLimit(OrderByDue({r \in rows : ~r.completed}), limit)

\* ORDER BY completion_date DESC: NULL sorts lowest, so last; rows of equal
\* completion date come in rowid order.
RECURSIVE OrderByCompletion(_)
OrderByCompletion(S) ==
    IF S = {} THEN <<>>
    ELSE LET first == CHOOSE r \in S : \A q \in S :
                          \/ r.completionDate > q.completionDate
                          \/ /\ r.completionDate = q.completionDate
                             /\ r.id <= q.id
         IN <<first>> \o OrderByCompletion(S \ {first})

getCompletedReminders(rows, limit) ==
    SqlLimit(OrderByCompletion({r \in rows : r.completed}), limit)

getFlaggedReminders(rows, limit) ==
    SqlLimit(OrderByDue({r \in rows : r.flagged /\ ~r.completed}), limit)

\* ORDER BY due_date ASC over rows that have a due date; ties in rowid order.
RECURSIVE OrderByDueDate(_)
OrderByDueDate(S) ==
    IF S = {} THEN <<>>
    ELSE LET first == CHOOSE r \in S : \A q \in S :
                          \/ r.dueDate < q.dueDate
                          \/ r.dueDate = q.dueDate /\ r.id <= q.id
         IN <<first>> \o OrderByDueDate(S \ {first})

\* beforeDate is a Date: whole seconds and the milliseconds beyond them.
\* Math.floor(beforeDate.getTime() / 1000)
getTimeSeconds(date) == date.s

getDueReminders(rows, beforeDate, limit) ==
    LET timestamp == getTimeSeconds(beforeDate) IN
    SqlLimit(OrderByDueDate({r \in rows : /\ ~r.completed
                                          /\ r.dueDate # NoDate
                                          /\ r.dueDate <= timestamp}), limit)

\* ORDER BY completed ASC, due_date ASC NULLS LAST, creation_date DESC
RECURSIVE OrderInList(_)
OrderInList(S) ==
    IF S = {} THEN <<>>
    ELSE LET first == CHOOSE r \in S : \A q \in S :
                          \/ ~r.completed /\ q.completed
                          \/ r.completed = q.completed /\ DueBefore(r, q)
         IN <<first>> \o OrderInList(S \ {first})

getRemindersInList(rows, listName, showCompleted, limit) ==
    LET listLower == toLowerCase(listName) IN
    SqlLimit(OrderInList({r \in rows :
                 /\ Like(<<"%">> \o listLower \o <<"%">>,
                         toLowerCase(r.listName))
                 /\ showCompleted \/ ~r.completed}), limit)

\* GROUP BY list_name over the rows WHERE list_name != ''.
getLists(rows) ==
    {[name |-> n,
      pendingCount |-> Cardinality({r \in rows : r.listName = n
                                                  /\ ~r.completed}),
      completedCount |-> Cardinality({r \in rows : r.listName = n
                                                    /\ r.completed})] :
        n \in {r.listName : r \in {q \in rows : q.listName # <<>>}}}

\* MiniSearch with prefix search over title and listName, title boosted:
\* a document matches when the query term starts one of the two fields.
Score(d, query) ==
    LET term == toLowerCase(trim(query)) IN
    (IF startsWith(toLowerCase(d.title), term) THEN 2 ELSE 0)
      + (IF startsWith(toLowerCase(d.listName), term) THEN 1 ELSE 0)

\* Best score first; documents of equal score in the order they were added.
RECURSIVE Ranked(_, _)
Ranked(S, query) ==
    IF S = {} THEN <<>>
    ELSE LET first == CHOOSE d \in S : \A e \in S :
                          \/ Score(d, query) > Score(e, query)
                          \/ Score(d, query) = Score(e, query) /\ d.id <= e.id
         IN <<first>> \o Ranked(S \ {first}, query)

\* The filter option handed to miniSearch.search.
TextFilter(d, list, completed, flagged) ==
    /\ Truthy(list) => includes(toLowerCase(d.listName), toLowerCase(list.text))
    /\ CompletedOk(d, completed)
    /\ flagged = "true" => d.flagged

searchByText(docs, query, list, completed, flagged, limit) ==
    LET hasFilters == Truthy(list) \/ completed # "unset" \/ flagged # "unset"
        searchLimit == IF hasFilters THEN limit * FILTER_FACTOR ELSE limit
        fuzzyResults ==
            Ranked({d \in docs : /\ Score(d, query) > 0
                                 /\ TextFilter(d, list, completed, flagged)},
                   query)
    IN slice(slice(fuzzyResults, searchLimit), limit)

\* search() after ensureIndex and getDb.
search(rows, docs, c) ==
    IF Truthy(c.list) /\ ~hasTextQuery(c.query)
    THEN [done |-> TRUE, strategy |-> "list",
          rows |-> searchByList(rows, c.list.text, c.completed, c.limit)]
    ELSE IF hasTextQuery(c.query)
    THEN [done |-> TRUE, strategy |-> "text",
          rows |-> searchByText(docs, c.query.text, c.list, c.completed,
                                c.flagged, c.limit)]
    ELSE [done |-> TRUE, strategy |-> "all",
          rows |-> getAllReminders(rows, c.completed, c.flagged, c.limit)]

\* The records of the index a search runs over.
SearchRecord(k, t, l, c, f, due, created, finished) ==
    ToIndexed([id |-> k, title |-> t, listName |-> l,
               listId |-> IF l = <<>> THEN 0 ELSE 1,
               completed |-> c, flagged |-> f, dueDate |-> due,
               creationDate |-> created, completionDate |-> finished], 0)
SearchRecords ==
    {SearchRecord(1, <<"a">>, WorkList, 0, 0, NoDate, 1, NoDate),
     SearchRecord(2, <<"a", "b">>, WorkList, 1, 1, 5, 2, 3),
     SearchRecord(3, <<"a">>, <<>>, 0, 1, 4, 3, NoDate),
     SearchRecord(4, <<"a", "b">>, WorkList, 0, 0, 5, 4, NoDate),
     SearchRecord(5, <<"b">>, WorkList, 0, 0, NoDate, 5, NoDate),
     SearchRecord(6, <<"c">>, <<>>, 1, 0, NoDate, 6, 7)}

Texts == {Unset, Given(<<>>), Given(<<"*">>), Given(<<" ">>),
          Given(<<"a">>), Given(<<"w">>)}
Lists == {Unset, Given(<<>>), Given(<<"W", "O">>), Given(<<"_">>),
          Given(<<"r">>)}
Calls == [query : Texts, list : Lists, completed : {"unset", "true", "false"},
          flagged : {"unset", "true", "false"}, limit : -1..MaxLimit]

\* The arguments of the browse functions: completed and flagged take a
\* limit, due a cutoff as well, inList a list name and showCompleted.
BrowseTools == {"completed", "flagged", "due", "inList", "lists"}
ListNames == {<<"W", "O">>, <<"_">>, <<"d">>}
Cutoffs == {[s |-> appleToUnix(4), ms |-> 999], [s |-> appleToUnix(5), ms |-> 0]}
NoBrowse == [listName |-> <<>>, showCompleted |-> FALSE,
             beforeDate |-> [s |-> 0, ms |-> 0], limit |-> 0]
BrowseCalls(tool) ==
    CASE tool = "due" ->
           {[NoBrowse EXCEPT !.beforeDate = t, !.limit = k] :
              t \in Cutoffs, k \in -1..MaxLimit}
      [] tool = "inList" ->
           {[NoBrowse EXCEPT !.listName = n, !.showCompleted = b,
                             !.limit = k] :
              n \in ListNames, b \in BOOLEAN, k \in -1..MaxLimit}
      [] tool = "lists" -> {NoBrowse}
      [] OTHER -> {[NoBrowse EXCEPT !.limit = k] : k \in -1..MaxLimit}

\* The index has been built, its sources are gone (so ensureIndex answers
\* 'none'), and a search or a browse function has opened its handle.
SearchInit ==
    /\ srcDir = TRUE /\ broken = {}
    /\ srcFiles = {} /\ src = [f \in Files |-> <<>>]
    /\ mtime = [f \in Files |-> 0] /\ clock = 0
    /\ \E S \in SUBSET SearchRecords :
         /\ db = [exists |-> TRUE, tables |-> TRUE, rows |-> S, mtime |-> 0]
         /\ fuzzy = [state |-> "ok", docs |-> S]
         /\ stats = BuildStats(OrderByCreation(S), 0)
    /\ cachedDb = [open |-> TRUE, tables |-> TRUE, beforeRun |-> FALSE]
    /\ cachedMiniSearch = NoMini
    /\ pc = "m_read" /\ result = "none"
    /\ \/ op = "search" /\ call \in Calls
       \/ op = "pending"
          /\ call \in {[NoCall EXCEPT !.limit = k] : k \in -1..MaxLimit}
       \/ \E tool \in BrowseTools : op = tool /\ call \in BrowseCalls(tool)
    /\ dbs = {} /\ reminders = <<>> /\ indexed = <<>> /\ batchQ = <<>>
    /\ miniSearch = {} /\ existingStats = NoStats
    /\ answer = NoAnswer
    /\ hist = [NoHist EXCEPT !.lastRun = "build"]

\* The handler returns: the results go out and closeConnections runs.
Answered ==
    /\ cachedDb' = NoHandle /\ cachedMiniSearch' = NoMini
    /\ pc' = "idle" /\ op' = "none" /\ result' = "none"
    /\ UNCHANGED <<srcVars, clock, idxVars, runVars, call, hist>>

Search ==
    /\ pc = "m_read" /\ op = "search"
    /\ answer' = search(db.rows, fuzzy.docs, call)
    /\ Answered

Pending ==
    /\ pc = "m_read" /\ op = "pending"
    /\ answer' = [done |-> TRUE, strategy |-> "pending",
                  rows |-> getPendingReminders(db.rows, call.limit)]
    /\ Answered

Browse ==
    /\ pc = "m_read" /\ op \in BrowseTools
    /\ answer' =
         [done |-> TRUE, strategy |-> op,
          rows |-> CASE op = "completed" ->
                          getCompletedReminders(db.rows, call.limit)
                     [] op = "flagged" ->
                          getFlaggedReminders(db.rows, call.limit)
                     [] op = "due" ->
                          getDueReminders(db.rows, call.beforeDate,
                                          call.limit)
                     [] op = "inList" ->
                          getRemindersInList(db.rows, call.listName,
                                             call.showCompleted, call.limit)
                     [] op = "lists" -> getLists(db.rows)]
    /\ Answered

SearchNext == Search \/ Pending \/ Browse

SearchSpec == SearchInit /\ [][SearchNext]_vars

\* ------------------------------------------------------------- properties
\* No run is in progress and every run since the last completed full build
\* completed.
Settled == hist.clean /\ ~InRun

\* The canonical records of a store, compared by content.
Content(S) == {[r EXCEPT !.id = 0] : r \in S}

\* A run completes in this step: only saveStats changes stats.json.
Completes == InRun /\ stats' # stats
UpdateCompletes == Completes /\ pc \in {"u_read", "u_fuzzy", "u_stats"}
BuildCompletes == Completes /\ pc \in {"b_fuzzy", "b_stats"}

\* A run ends in this step without having saved the Stats Record.
Interrupted == InRun /\ pc' = "idle" /\ stats' = stats

\* C1: after any sequence of successful full builds and incremental updates
\* the ids in table reminders of index.db are the document ids of
\* fuzzy.json.
C1_SameIds == Settled => IdsOf(db.rows) = IdsOf(fuzzy.docs)

\* An incremental update has added records to an index built before it.
C1_Witness ==
    /\ pc = "idle" /\ hist.clean /\ hist.lastRun = "update"
    /\ Cardinality(db.rows) > 1

\* C2: after any sequence of successful full builds and incremental updates
\* the index holds at most one record per dedup key (title, list name,
\* creation timestamp).
C2_OnePerKey ==
    Settled => \A r, q \in db.rows : DedupKey(r) = DedupKey(q) => r = q

\* C3: when a full build read the sources S and the sources have only
\* gained records since, an incremental update that read them all leaves
\* the records (by content, ids ignored) that a full build of the sources
\* would index.
C3_IncrementalEqualsFull ==
    [][(UpdateCompletes /\ hist.grown /\ hist.late = {} /\ ~hist.lost)
         => Content(db'.rows)
              = Content(Range(IndexLoop(
                    queryAllDatabases(findRemindersDatabases, <<>>),
                    clock)))]_vars

C5_InterruptedNeedsRebuild ==
    [][(Interrupted /\ (hist.wrote \/ db' # db \/ fuzzy' # fuzzy))
         => indexNeedsRebuild']_vars

\* C6: a read operation whose staleness check ran a rebuild or an update
\* reads through a handle opened after that run finished.
C6_HandleReopened ==
    (pc = "m_read" /\ result # "none") => ~cachedDb.beforeRun

\* C7: when ensureIndex returns and no source file was modified behind the
\* run's back, the index is fresh: the next ensureIndex finds nothing to do.
C7_Idempotent ==
    [][(pc # "m_open" /\ pc' = "m_open" /\ hist.late = {})
         => ~indexNeedsRebuild']_vars

\* C8: a source file modified after a run copied it is still seen as newer
\* than the index when that run completes.
C8_LateChangeSeen ==
    [][(Completes /\ hist.late # {}) => indexNeedsRebuild']_vars

\* C9: whenever a Stats Record with a high-water-mark is on disk, both
\* stores hold the record it names.
C9_StatsImpliesStores ==
    HasRowid(stats)
      => stats.lastIndexedRowid \in IdsOf(db.rows) \cap IdsOf(fuzzy.docs)

\* C10: when a rebuild is needed, ensureIndex goes to updateIndex only with
\* a Stats Record carrying a high-water-mark and with index.db and
\* fuzzy.json both present, and to buildIndex in every other case; it
\* returns 'incremental' only out of updateIndex and 'full' only out of
\* buildIndex.
C10_IncrementalOnlyWhenValid ==
    [][/\ (pc = "e_check" /\ pc' = "u_start")
          => /\ indexNeedsRebuild /\ stats.exists
             /\ stats.lastIndexedRowid # 0
             /\ db.exists /\ fuzzy.state # "missing"
       /\ (/\ pc = "e_check" /\ pc' \notin {"e_check", "idle"}
           /\ indexNeedsRebuild
           /\ ~(/\ stats.exists /\ stats.lastIndexedRowid # 0
                /\ db.exists /\ fuzzy.state # "missing"))
          => pc' = "b_start"
       /\ (result' = "incremental" /\ result # "incremental")
          => UpdateCompletes
       /\ (result' = "full" /\ result # "full") => BuildCompletes]_vars

\* ensureIndex has returned 'incremental' to a read operation.
C10_Witness == pc = "m_open" /\ op = "read" /\ result = "incremental"
Searched == answer.done /\ answer.strategy \in {"list", "text", "all"}

\* The first k elements of s; none when k is not positive.
First(k, s) == SubSeq(s, 1, Min({Max({k, 0}), Len(s)}))

\* C12: under each strategy, a returned record has the completed value the
\* call asked for, and its list name contains the list string of the call,
\* letter case ignored.
C12_CompletedAndListFilter ==
    Searched =>
      \A k \in 1..Len(answer.rows) :
        /\ call.completed # "unset"
             => answer.rows[k].completed = (call.completed = "true")
        /\ call.list.set
             => includes(toLowerCase(answer.rows[k].listName),
                         toLowerCase(call.list.text))

\* C13: a search with flagged = true returns flagged records only.
C13_FlaggedFilter ==
    (Searched /\ call.flagged = "true")
      => \A k \in 1..Len(answer.rows) : answer.rows[k].flagged

\* C14: a search returns at most limit results; a limit of zero or less is
\* rejected (no results) or clamped to the smallest valid limit (at most
\* one result).
C14_LimitRespected ==
    Searched =>
      Len(answer.rows) <= (IF call.limit > 0 THEN call.limit ELSE 1)

C16_FilterThenCut ==
    (/\ Searched /\ answer.strategy = "text"
     /\ (Truthy(call.list) \/ call.completed # "unset"
           \/ call.flagged # "unset"))
      => LET Passes(d) ==
                 /\ Truthy(call.list)
                      => includes(toLowerCase(d.listName),
                                  toLowerCase(call.list.text))
                 /\ call.completed # "unset"
                      => d.completed = (call.completed = "true")
                 /\ call.flagged = "true" => d.flagged
             ranking == Ranked({d \in fuzzy.docs :
                                  Score(d, call.query.text) > 0},
                               call.query.text)
         IN answer.rows = First(call.limit, SelectSeq(ranking, Passes))

\* C17: the list strategy, the status browse and the pending browse return
\* the first `limit` records of their selection ordered by due date
\* ascending, records without due date last, equal due dates by creation
\* date descending.
C17_DueOrderThenLimit ==
    (answer.done /\ answer.strategy \in {"list", "all", "pending"})
      => LET selection ==
                 CASE answer.strategy = "list" ->
                        searchByList(db.rows, call.list.text,
                                     call.completed, -1)
                   [] answer.strategy = "all" ->
                        getAllReminders(db.rows, call.completed,
                                        call.flagged, -1)
                   [] OTHER -> getPendingReminders(db.rows, -1)
         IN /\ answer.rows = First(call.limit, selection)
            /\ \A j, k \in 1..Len(answer.rows) :
                 j < k =>
                   LET r == answer.rows[j]
                       q == answer.rows[k]
                   IN \/ r.dueDate # NoDate
                         /\ (q.dueDate = NoDate \/ r.dueDate < q.dueDate)
                      \/ /\ r.dueDate = q.dueDate
                         /\ r.creationDate >= q.creationDate
\* The rows of the source files fs in scan order, and where a dedup key
\* first occurs among them.
RECURSIVE Scan(_)
Scan(fs) ==
    IF fs = {} THEN <<>>
    ELSE LET f == Min(fs)
         IN OrderByCreation(SelectRows(f, 0)) \o Scan(fs \ {f})
FirstAt(key, sc) == Min({k \in 1..Len(sc) : DedupKey(sc[k]) = key})

\* A full build has read every source file, and none changed behind it.
BuildHasRead ==
    /\ pc \in {"b_read", "b_create", "b_batch", "b_fuzzy", "b_stats"}
    /\ dbs = {} /\ hist.late = {} /\ ~hist.lost

\* C18: a full ingestion keeps, for every dedup key of the scanned rows, its
\* first occurrence in scan order and numbers the kept records 1, 2, 3, ...
\* in that order, whatever their Z_PK; once the batches are committed the
\* index holds one record per key.
C18_FirstOccurrenceWins ==
    BuildHasRead =>
      LET sc == Scan(srcFiles) IN
      /\ \A k \in 1..Len(reminders) :
           /\ reminders[k].id = k
           /\ \E j \in 1..Len(sc) :
                /\ j = FirstAt(DedupKey(reminders[k]), sc)
                /\ [reminders[k] EXCEPT !.id = 0] = [sc[j] EXCEPT !.id = 0]
      /\ {DedupKey(r) : r \in Range(reminders)}
           = {DedupKey(r) : r \in Range(sc)}
      /\ \A j, k \in 1..Len(reminders) :
           j < k => FirstAt(DedupKey(reminders[j]), sc)
                      < FirstAt(DedupKey(reminders[k]), sc)
      /\ pc \in {"b_fuzzy", "b_stats"}
           => \A r, q \in db.rows : DedupKey(r) = DedupKey(q) => r = q

\* Both source files hold reminder a, and the build has committed one
\* record for it.
C18_Witness ==
    /\ BuildHasRead /\ pc = "b_stats"
    /\ \A f \in Files : f \in srcFiles /\ ItemA \in Range(src[f])
    /\ Cardinality({r \in db.rows : r.title = ItemA.title}) = 1
\* C19: the records one run collects for the index (those with a title),
\* from whichever source files, never share an identifier.
C19_IdsNeverShared ==
    \A j, k \in 1..Len(reminders) :
      (j # k /\ reminders[j].title # <<>> /\ reminders[k].title # <<>>)
        => reminders[j].id # reminders[k].id

\* C20: a buildIndex that runs over the sources exactly as the build
\* before it read them leaves, in index.db and in fuzzy.json, the records
\* (ids included) that build left, and saves the same high-water-mark.
C20_RebuildSame ==
    [][/\ (hist.same /\ pc = "b_fuzzy" /\ pc' = "b_stats")
          => db.rows = fuzzy.docs /\ fuzzy'.docs = fuzzy.docs
       /\ (hist.same /\ BuildCompletes)
          => stats'.lastIndexedRowid = stats.lastIndexedRowid]_vars

\* The rows a run has collected that carry a title, all of them and those
\* with completed = c.
Titled(rs) == {k \in 1..Len(rs) : rs[k].title # <<>>}
TitledWith(rs, c) == {k \in Titled(rs) : (rs[k].completed = 1) = c}

\* C21: no record without a title is ever in index.db or in fuzzy.json, and
\* the counts a full build or an update saves in the Stats Record count the
\* titled rows of the run only.
C21_UntitledExcluded ==
    [][/\ \A r \in db'.rows \cup fuzzy'.docs : r.title # <<>>
       /\ BuildCompletes
          => /\ stats'.totalReminders = Cardinality(Titled(reminders))
             /\ stats'.completedReminders
                  = Cardinality(TitledWith(reminders, TRUE))
             /\ stats'.pendingReminders
                  = Cardinality(TitledWith(reminders, FALSE))
       /\ UpdateCompletes
          => /\ stats'.totalReminders
                  = stats.totalReminders + Cardinality(Titled(reminders))
             /\ stats'.completedReminders
                  = stats.completedReminders
                      + Cardinality(TitledWith(reminders, TRUE))
             /\ stats'.pendingReminders
                  = stats.pendingReminders
                      + Cardinality(TitledWith(reminders, FALSE))]_vars

\* An update has just completed over a delta that held a row without title:
\* the row is above the mark still, and the index holds a record.
C21_Witness ==
    /\ pc = "idle" /\ hist.lastRun = "updateNone" /\ stats.indexedAt = clock
    /\ db.rows # {}
    /\ \E f \in srcFiles : \E k \in 1..Len(src[f]) :
         src[f][k].title = <<>> /\ k > stats.lastIndexedRowid

\* stats.json is missing or holds no high-water-mark.
NoMark == ~stats.exists \/ stats.lastIndexedRowid = 0

\* C22: called without a Stats Record or without a high-water-mark,
\* updateIndex returns null: it has read no source and changed neither
\* store nor the Stats Record, and its caller goes on to buildIndex; an
\* update never reads the sources without a mark to read from.
C22_UpdateFailsClosed ==
    [][/\ (pc = "u_start" /\ NoMark /\ pc' \notin {"u_start", "idle"})
          => pc' = "b_start" /\ UNCHANGED <<idxVars, runVars>>
       /\ pc' \in {"u_read", "u_batch", "u_fuzzy", "u_stats"}
          => existingStats'.exists /\ existingStats'.lastIndexedRowid # 0]_vars

\* `reminders index --update` found no mark and its full rebuild has
\* written both stores.
C22_Witness ==
    /\ op = "cliUpdate" /\ pc = "b_stats" /\ NoMark
    /\ db.rows # {} /\ fuzzy.docs = db.rows

\* C23: an update that finds no row above the mark in any source file
\* changes nothing but indexedAt of the Stats Record: index.db, fuzzy.json
\* and every other field of the record stay as they were.
C23_EmptyDeltaOnlyTimestamp ==
    [][(UpdateCompletes /\ pc = "u_read" /\ reminders = <<>>)
         => /\ db' = db /\ fuzzy' = fuzzy
            /\ stats' = [stats EXCEPT !.indexedAt = stats'.indexedAt]
            /\ stats'.indexedAt # stats.indexedAt]_vars

\* An update over sources without a row above the mark has just completed.
C23_Witness ==
    /\ pc = "idle" /\ hist.lastRun = "updateNone" /\ stats.indexedAt = clock
    /\ db.rows # {} /\ stats.lastIndexedRowid # 0
    /\ \A f \in srcFiles : Len(src[f]) <= stats.lastIndexedRowid

\* C24: after successful full builds and updates the date bounds of the
\* Stats Record cover the index: no indexed record was created before
\* oldestReminder or after newestReminder.
C24_BoundsCoverIndex ==
    (Settled /\ stats.exists)
      => \A r \in db.rows :
           /\ stats.oldestReminder <= r.creationDate
           /\ r.creationDate <= stats.newestReminder

\* C25: after successful full builds and updates the Stats Record mirrors
\* index.db: total = completed + pending, the three counts are the numbers
\* of records, completed records and pending records of table reminders,
\* and lastIndexedRowid is the largest id in it (0 when it is empty).
C25_StatsMirrorStore ==
    (Settled /\ stats.exists)
      => /\ stats.totalReminders
              = stats.completedReminders + stats.pendingReminders
         /\ stats.totalReminders = Cardinality(db.rows)
         /\ stats.completedReminders
              = Cardinality({r \in db.rows : r.completed})
         /\ stats.pendingReminders
              = Cardinality({r \in db.rows : ~r.completed})
         /\ stats.lastIndexedRowid
              = IF db.rows = {} THEN 0 ELSE Max(IdsOf(db.rows))

\* An update has added a record to a built index; the index holds a
\* completed and a pending record.
C25_Witness ==
    /\ Settled /\ pc = "idle" /\ hist.lastRun = "update"
    /\ stats.completedReminders >= 1 /\ stats.pendingReminders >= 1

\* updateIndex takes a step of its own (the process is not killed in it).
UpdateSteps ==
    /\ pc \in {"u_start", "u_read", "u_batch", "u_fuzzy", "u_stats"}
    /\ <<pc, dbs, db, fuzzy, stats>>' # <<pc, dbs, db, fuzzy, stats>>
    /\ fuzzy'.state # "corrupt" \/ fuzzy.state = "corrupt"

\* C26: every step of updateIndex keeps each record that index.db and
\* fuzzy.json hold, as it is; a completed buildIndex leaves in both stores
\* exactly the records it made from the rows it read in this run, which
\* are the deduplicated rows of the source files as they are when none
\* changed behind it.
C26_AppendOnlyBetweenBuilds ==
    [][/\ UpdateSteps
          => db.rows \subseteq db'.rows /\ fuzzy.docs \subseteq fuzzy'.docs
       /\ BuildCompletes
          => /\ db'.rows = Range(indexed) /\ fuzzy'.docs = Range(indexed)
             /\ \A r \in Range(indexed) :
                  \E k \in 1..Len(reminders), t \in 0..clock :
                    r = ToIndexed(reminders[k], t)
             /\ (hist.late = {} /\ ~hist.lost)
                  => reminders
                       = queryAllDatabases(findRemindersDatabases, <<>>)]_vars

\* An update has written both stores; they hold the new record and, as it
\* was, a record from before the update.
C26_Witness ==
    /\ pc = "u_stats" /\ indexed # <<>>
    /\ Range(indexed) \subseteq db.rows \cap fuzzy.docs
    /\ \E r \in db.rows \cap fuzzy.docs :
         r.id <= existingStats.lastIndexedRowid

\* C27: when statSync fails on a source file while the staleness check
\* reads the modification times, the check answers that a rebuild is
\* needed: ensureIndex goes on to updateIndex or buildIndex.
C27_StatErrorMeansRebuild ==
    [][(/\ pc = "e_check" /\ pc' \notin {"e_check", "idle"}
        /\ indexExists
        /\ \E f \in findRemindersDatabases : ~Readable(f))
         => pc' \in {"u_start", "b_start"}]_vars

\* C28: with a fuzzy.json on disk that does not parse, ensureIndex does
\* what it does when the file is missing: it runs buildIndex.
C28_CorruptFuzzyRebuilds ==
    [][(/\ pc = "e_check" /\ pc' \notin {"e_check", "idle"}
        /\ fuzzy.state = "corrupt")
         => pc' = "b_start"]_vars

\* C29: buildIndex and updateIndex end with the error that names
\* SOURCE_DIR as not found only when that directory does not exist; over a
\* directory that exists and holds no source file they end otherwise.
C29_NotFoundOnlyWithoutDir ==
    [][(/\ pc \in {"b_start", "u_start"} /\ pc' = "idle"
        /\ hist'.notFound)
         => ~srcDir]_vars

\* The listed source files that are not broken.
Intact == findRemindersDatabases \ broken

\* C30: the copy loop of buildIndex passes over a source file that cannot
\* be copied or opened without failing and without taking a row from it;
\* when the build completes (no file having changed or broken behind it)
\* the rows it has read are the deduplicated rows of the intact files,
\* numbered 1, 2, 3, ..., and both stores hold the records made from them.
C30_UnreadableSkipped ==
    [][/\ (/\ pc = "b_read" /\ dbs # {} /\ Min(dbs) \notin Intact
           /\ dbs' # dbs /\ pc' # "idle")
          => pc' = "b_read" /\ reminders' = reminders /\ UNCHANGED idxVars
       /\ (BuildCompletes /\ hist.late = {} /\ ~hist.lost)
          => /\ reminders = queryAllDatabases(Intact, <<>>)
             /\ \A k \in 1..Len(reminders) : reminders[k].id = k
             /\ \E t \in 0..clock : indexed = IndexLoop(reminders, t)
             /\ db'.rows = Range(indexed) /\ fuzzy'.docs = Range(indexed)]_vars

\* A full build over a broken and an intact source file has written both
\* stores from the rows of the intact one.
C30_Witness ==
    /\ pc = "b_stats" /\ hist.late = {} /\ ~hist.lost
    /\ findRemindersDatabases \cap broken # {} /\ Intact # {}
    /\ Len(reminders) = 2
    /\ db.rows = Range(indexed) /\ fuzzy.docs = Range(indexed)
    /\ db.rows # {}

\* ------------------------------------------------------------------ C31
\* The program's position, its run, its stores and its handles.
Program == <<pc, op, result, dbs, reminders, indexed, batchQ, miniSearch,
             existingStats, db, fuzzy, stats, cachedDb, cachedMiniSearch>>

C32_HandlesReleased ==
    pc = "idle" => cachedDb = NoHandle /\ cachedMiniSearch = NoMini

\* ------------------------------------------------------------------ C33
Rank(phase) ==
    CASE phase = "reading" -> 1
      [] phase = "indexing-fts" -> 2
      [] phase = "indexing-fuzzy" -> 3
      [] phase = "done" -> 4

Dones(p) == {k \in 1..Len(p) : p[k].phase = "done"}

\* The notifications p come in phase order, with at most one 'done', the
\* last of them, and 0 <= current <= total in each.
WellFormed(p) ==
    /\ \A j \in 1..Len(p), k \in 1..Len(p) :
          j < k => Rank(p[j].phase) <= Rank(p[k].phase)
    /\ Dones(p) \subseteq {Len(p)}
    /\ \A k \in 1..Len(p) : 0 <= p[k].current /\ p[k].current <= p[k].total

\* The step on which buildIndex saves the Stats Record.
SavesBuildStats == pc = "b_stats" /\ stats' # stats

\* C33: the notifications of a run come in the order reading,
\* indexing-fts, indexing-fuzzy, done, each with 0 <= current <= total;
\* 'done' appears only on a step that saves the Stats Record; a buildIndex
\* that completes with a callback has told it 'reading' first and 'done'
\* exactly once, last; and with or without a callback the build leaves the
\* same stores and Stats Record, those of its indexedReminders.
C33_ProgressInOrder ==
    /\ [](WellFormed(hist.progress))
    /\ [][/\ Dones(hist'.progress) \ Dones(hist.progress) # {}
               => stats' # stats /\ stats'.exists
          /\ SavesBuildStats =>
               /\ stats' = BuildStats(indexed, clock')
               /\ db'.rows = Range(indexed) /\ fuzzy'.docs = Range(indexed)
               /\ IF IsCli
                  THEN /\ Len(hist'.progress) >= 4
                       /\ hist'.progress[1].phase = "reading"
                       /\ Dones(hist'.progress) = {Len(hist'.progress)}
                       /\ Dones(hist.progress) = {}
                  ELSE hist'.progress = <<>>]_vars

\* A CLI build over three records, one of them untitled, has just ended:
\* its callback has seen one full batch, the fuzzy phase and 'done'.
C33_Witness ==
    /\ pc = "idle" /\ hist.lastRun = "build"
    /\ Len(hist.progress) = 6
    /\ hist.progress[1] = Notification("reading", 0, 3)
    /\ hist.progress[3] = Notification("indexing-fts", 2, 3)
    /\ hist.progress[5] = Notification("indexing-fuzzy", 2, 2)
    /\ hist.progress[6] = Notification("done", 3, 3)

\* ------------------------------------------------------------------ C34
UpdateRuns == pc \in {"u_read", "u_batch", "u_fuzzy", "u_stats"}

\* C34: under ensureIndex a running updateIndex never hands over to
\* buildIndex: it goes on, returns 'incremental' to the reader, or ends
\* the operation, and when it ends the operation the Stats Record is as it
\* was.  buildIndex begins under ensureIndex only when the incremental
\* update was not tried, or returned null for want of a high-water-mark.
C34_ExceptionPropagates ==
    [][/\ (op = "read" /\ UpdateRuns) =>
            /\ pc' \in {"u_read", "u_batch", "u_fuzzy", "u_stats", "m_open",
                         "idle"}
            /\ pc' = "m_open" => result' = "incremental"
            /\ pc' = "idle" => stats' = stats
       /\ (op = "read" /\ pc # "b_start" /\ pc' = "b_start") =>
            \/ pc = "e_check" /\ ~TryIncremental
            \/ pc = "u_start" /\ NoMark]_vars

\* The update that ensureIndex started is about to insert a batch that
\* hits the primary key.
C34_Witness ==
    /\ op = "read" /\ pc = "u_batch"
    /\ PkConflict(db.rows, NextBatch(batchQ))
    /\ stats.exists

\* ------------------------------------------------------------------ C35
Browsed ==
    /\ answer.done
    /\ answer.strategy \in {"pending", "completed", "flagged", "due", "inList"}

\* C35: a browse function returns at most limit records (none for a limit
\* below one); getPendingReminders only pending records;
\* getCompletedReminders only completed ones, the later completion first;
\* getFlaggedReminders only flagged pending ones; getDueReminders only
\* pending ones with a due date not later than the cutoff, the earlier due
\* first; getRemindersInList only records whose list name contains the
\* given name, letter case ignored, and only pending ones unless
\* showCompleted is true.
C35_BrowsePredicates ==
    Browsed =>
      /\ Len(answer.rows) <= Max({call.limit, 0})
      /\ \A k \in 1..Len(answer.rows) :
           LET r == answer.rows[k] IN
           CASE answer.strategy = "pending" -> ~r.completed
             [] answer.strategy = "completed" -> r.completed
             [] answer.strategy = "flagged" -> r.flagged /\ ~r.completed
             [] answer.strategy = "due" ->
                  /\ ~r.completed /\ r.dueDate # NoDate
                  /\ \/ r.dueDate < call.beforeDate.s
                     \/ r.dueDate = call.beforeDate.s /\ 0 <= call.beforeDate.ms
             [] answer.strategy = "inList" ->
                  /\ includes(toLowerCase(r.listName),
                              toLowerCase(call.listName))
                  /\ call.showCompleted \/ ~r.completed
      /\ \A j \in 1..Len(answer.rows), k \in 1..Len(answer.rows) :
           j < k =>
             /\ answer.strategy = "completed" =>
                  answer.rows[j].completionDate >= answer.rows[k].completionDate
             /\ answer.strategy = "due" =>
                  answer.rows[j].dueDate <= answer.rows[k].dueDate

\* ------------------------------------------------------------------ C36
RECURSIVE SumPending(_)
SumPending(L) ==
    IF L = {} THEN 0
    ELSE LET e == CHOOSE x \in L : TRUE
         IN e.pendingCount + SumPending(L \ {e})

RECURSIVE SumCompleted(_)
SumCompleted(L) ==
    IF L = {} THEN 0
    ELSE LET e == CHOOSE x \in L : TRUE
         IN e.completedCount + SumCompleted(L \ {e})

\* C36: the two counts getLists reports for a list add up to the number of
\* records of index.db with that list name; every record's list is
\* reported, a record made from a row without list under 'Reminders'; and
\* after successful builds and updates the counts summed over the lists
\* are the pendingReminders and completedReminders of the Stats Record.
C36_ListsAgree ==
    LET lists == getLists(db.rows) IN
    /\ \A e \in lists :
         e.pendingCount + e.completedCount
           = Cardinality({r \in db.rows : r.listName = e.name})
    /\ \A r \in db.rows :
         /\ \E e \in lists : e.name = r.listName
         /\ r.listId = 0 => \E e \in lists : e.name = DefaultList
    /\ (Settled /\ stats.exists)
         => /\ SumPending(lists) = stats.pendingReminders
            /\ SumCompleted(lists) = stats.completedReminders

\* An update has added a record to a built index; getLists reports the
\* list 'Work' with a pending record and 'Reminders' with the completed
\* record that has no list.
C36_Witness ==
    /\ Settled /\ pc = "idle" /\ hist.lastRun = "update" /\ stats.exists
    /\ getLists(db.rows)
         = {[name |-> WorkList, pendingCount |-> 1, completedCount |-> 0],
            [name |-> DefaultList, pendingCount |-> 0, completedCount |-> 1]}

====
